---- MODULE Spec2Model ----
(***************************************************************************)
(* A model of my-groupme-bot (src/index.js): the feature registry, the    *)
(* pattern / command / random / help builders, the plugin installer and   *)
(* the HTTP request handler that dispatches an inbound message.           *)
(*                                                                         *)
(* Strings are sequences of one-character strings, so that quote, trim,   *)
(* replace, split, join and the regular expressions are computed          *)
(* character by character as the JavaScript does.                          *)
(***************************************************************************)
EXTENDS Integers, Sequences, FiniteSets, TLC

(***************************************************************************)
(* Bounds of the model.                                                    *)
(***************************************************************************)
MaxFeatures == 3
MaxHelpFeatures == 4
MaxPlugins == 2

(***************************************************************************)
(* Strings.                                                                *)
(***************************************************************************)

\* The white space characters of the model's alphabet (JavaScript's \s and trim).
IsWs(c) == c \in {" ", "\t", "\n"}

\* The UTF-16 code unit of a character: JavaScript's < and > on strings
\* compare code units from the left.
Code(c) ==
  CASE c = "\t" -> 9
    [] c = "\n" -> 10
    [] c = " " -> 32
    [] c = "-" -> 45
    [] c = "." -> 46
    [] c = "/" -> 47
    [] c = "D" -> 68
    [] c = "a" -> 97
    [] c = "b" -> 98
    [] c = "d" -> 100
    [] c = "e" -> 101
    [] c = "f" -> 102
    [] c = "h" -> 104
    [] c = "i" -> 105
    [] c = "l" -> 108
    [] c = "m" -> 109
    [] c = "n" -> 110
    [] c = "o" -> 111
    [] c = "p" -> 112
    [] c = "q" -> 113
    [] c = "r" -> 114
    [] c = "s" -> 115
    [] c = "t" -> 116
    [] c = "u" -> 117
    [] c = "x" -> 120
    [] c = "y" -> 121
    [] OTHER -> 122

\* a < b on JavaScript strings.
RECURSIVE StrLess(_, _)
StrLess(a, b) ==
  IF b = <<>> THEN FALSE
  ELSE IF a = <<>> THEN TRUE
  ELSE IF Code(Head(a)) < Code(Head(b)) THEN TRUE
  ELSE IF Code(Head(a)) > Code(Head(b)) THEN FALSE
  ELSE StrLess(Tail(a), Tail(b))

\* String.prototype.trim: white space removed from both ends.
RECURSIVE TrimStart(_)
TrimStart(s) ==
  IF s # <<>> /\ IsWs(Head(s)) THEN TrimStart(Tail(s)) ELSE s

RECURSIVE TrimEnd(_)
TrimEnd(s) ==
  IF s # <<>> /\ IsWs(s[Len(s)]) THEN TrimEnd(SubSeq(s, 1, Len(s) - 1)) ELSE s

Trim(s) == TrimEnd(TrimStart(s))

\* s.slice(from, to) with 0-based positions: the characters from+1 .. to.
Slice(s, from, to) == SubSeq(s, from + 1, to)

\* Array.prototype.join(sep) on an array of strings.
RECURSIVE Join(_, _)
Join(parts, sep) ==
  IF parts = <<>> THEN <<>>
  ELSE IF Len(parts) = 1 THEN parts[1]
  ELSE parts[1] \o sep \o Join(Tail(parts), sep)

\* The characters quote escapes: . ? * + ^ $ [ ] \ ( ) { } | -
MetaChars == {".", "?", "*", "+", "^", "$", "[", "]", "\\", "(", ")", "{", "}", "|", "-"}

\* quote(str): every regular-expression metacharacter gets a backslash before it.
RECURSIVE quote(_)
quote(str) ==
  IF str = <<>> THEN <<>>
  ELSE (IF Head(str) \in MetaChars THEN <<"\\", Head(str)>> ELSE <<Head(str)>>)
         \o quote(Tail(str))

(***************************************************************************)
(* Regular expressions.  A RegExp's source is a string; Compile reads it   *)
(* into atoms: a literal character, "." (any character but a line          *)
(* terminator), \s, ^, $, the group (\s|$) that command builds, and a      *)
(* trailing + on a one-character atom.  Positions are 0-based as in        *)
(* JavaScript: position p is before character p + 1.                       *)
(***************************************************************************)

Atom(t, c, plus) == [t |-> t, c |-> c, plus |-> plus]

\* The tail (\s|$) of the regular expression command builds.
WsOrEndSrc == <<"(", "\\", "s", "|", "$", ")">>

\* The first atom of a source and the number of characters it takes.
FirstAtom(src) ==
  LET one ==
        IF Head(src) = "\\" /\ Len(src) >= 2
          THEN [a |-> IF src[2] = "s" THEN Atom("ws", "", FALSE)
                                      ELSE Atom("lit", src[2], FALSE),
                n |-> 2]
        ELSE IF Len(src) >= 6 /\ SubSeq(src, 1, 6) = WsOrEndSrc
          THEN [a |-> Atom("wsOrEol", "", FALSE), n |-> 6]
        ELSE IF Head(src) = "^" THEN [a |-> Atom("bol", "", FALSE), n |-> 1]
        ELSE IF Head(src) = "$" THEN [a |-> Atom("eol", "", FALSE), n |-> 1]
        ELSE IF Head(src) = "." THEN [a |-> Atom("any", "", FALSE), n |-> 1]
        ELSE [a |-> Atom("lit", Head(src), FALSE), n |-> 1]
  IN IF Len(src) > one.n /\ src[one.n + 1] = "+" /\ one.a.t \in {"lit", "any", "ws"}
       THEN [a |-> [one.a EXCEPT !.plus = TRUE], n |-> one.n + 1]
       ELSE one

RECURSIVE Compile(_)
Compile(src) ==
  IF src = <<>> THEN <<>>
  ELSE LET f == FirstAtom(src)
       IN <<f.a>> \o Compile(SubSeq(src, f.n + 1, Len(src)))

AtomOk(a, c) ==
  CASE a.t = "lit" -> c = a.c
    [] a.t = "any" -> c # "\n"
    [] a.t = "ws" -> IsWs(c)
    [] OTHER -> FALSE

\* The number of consecutive characters from position i that atom a accepts.
RECURSIVE Run(_, _, _)
Run(a, text, i) ==
  IF i < Len(text) /\ AtomOk(a, text[i + 1]) THEN 1 + Run(a, text, i + 1) ELSE 0

\* The end position of the match of atoms k.. at position i, or -1: the
\* backtracking matcher, greedy on +, first alternative first.
RECURSIVE MatchAt(_, _, _, _)
RECURSIVE MatchPlus(_, _, _, _, _)
MatchAt(atoms, k, text, i) ==
  IF k > Len(atoms) THEN i
  ELSE LET a == atoms[k]
       IN CASE a.t = "bol" -> IF i = 0 THEN MatchAt(atoms, k + 1, text, i) ELSE -1
            [] a.t = "eol" ->
                 IF i = Len(text) THEN MatchAt(atoms, k + 1, text, i) ELSE -1
            [] a.t = "wsOrEol" ->
                 LET r1 == IF i < Len(text) /\ IsWs(text[i + 1])
                             THEN MatchAt(atoms, k + 1, text, i + 1)
                             ELSE -1
                 IN IF r1 # -1 THEN r1
                    ELSE IF i = Len(text) THEN MatchAt(atoms, k + 1, text, i)
                    ELSE -1
            [] OTHER ->
                 IF a.plus THEN MatchPlus(atoms, k, text, i, Run(a, text, i))
                 ELSE IF i < Len(text) /\ AtomOk(a, text[i + 1])
                   THEN MatchAt(atoms, k + 1, text, i + 1)
                 ELSE -1

MatchPlus(atoms, k, text, i, n) ==
  IF n < 1 THEN -1
  ELSE LET r == MatchAt(atoms, k + 1, text, i + n)
       IN IF r # -1 THEN r ELSE MatchPlus(atoms, k, text, i, n - 1)

NoMatch == [index |-> -1, end |-> -1]

\* The leftmost match starting at position from or later (RegExpBuiltinExec's
\* search loop).
RECURSIVE Exec(_, _, _)
Exec(atoms, text, from) ==
  IF from > Len(text) THEN NoMatch
  ELSE LET e == MatchAt(atoms, 1, text, from)
       IN IF e # -1 THEN [index |-> from, end |-> e]
          ELSE Exec(atoms, text, from + 1)

\* A RegExp object: its source, its global flag and its lastIndex.
RegExp(src, g) == [src |-> src, g |-> g, lastIndex |-> 0]

\* RegExp.prototype.test: the result and the object afterwards.  A global
\* RegExp searches from lastIndex and leaves lastIndex at the end of the
\* match, or at 0 when nothing matched.
RegExpTest(re, text) ==
  LET m == Exec(Compile(re.src), text, IF re.g THEN re.lastIndex ELSE 0)
  IN [result |-> m.index # -1,
      re |-> IF re.g
               THEN [re EXCEPT !.lastIndex = IF m.index # -1 THEN m.end ELSE 0]
               ELSE re]

\* Every match of atoms in text from position from on, left to right, as
\* (index, end) pairs; an empty match advances the position by one.
RECURSIVE AllMatches(_, _, _)
AllMatches(atoms, text, from) ==
  LET m == Exec(atoms, text, from)
  IN IF m.index = -1 THEN <<>>
     ELSE <<m>> \o AllMatches(atoms, text,
                              IF m.end = m.index THEN m.end + 1 ELSE m.end)

MatchStrings(ms, text) == [j \in 1..Len(ms) |-> Slice(text, ms[j].index, ms[j].end)]

\* String.prototype.match: null (isNull) or the array of matches; a global
\* RegExp gives every match and has lastIndex 0 afterwards, another RegExp
\* gives the first match only.
StringMatch(text, re) ==
  LET atoms == Compile(re.src)
      ms == IF re.g THEN AllMatches(atoms, text, 0)
            ELSE LET m == Exec(atoms, text, 0)
                 IN IF m.index = -1 THEN <<>> ELSE <<m>>
  IN [isNull |-> ms = <<>>,
      items |-> MatchStrings(ms, text),
      re |-> IF re.g THEN [re EXCEPT !.lastIndex = 0] ELSE re]

\* text with the matches ms (left to right, not overlapping) removed.
RECURSIVE RemoveMatches(_, _, _)
RemoveMatches(text, ms, from) ==
  IF ms = <<>> THEN Slice(text, from, Len(text))
  ELSE Slice(text, from, Head(ms).index)
         \o RemoveMatches(text, Tail(ms), Head(ms).end)

\* String.prototype.replace(re, ''): every match removed for a global RegExp
\* (lastIndex 0 afterwards), the first match only otherwise.
StringReplaceEmpty(text, re) ==
  LET atoms == Compile(re.src)
      ms == IF re.g THEN AllMatches(atoms, text, 0)
            ELSE LET m == Exec(atoms, text, 0)
                 IN IF m.index = -1 THEN <<>> ELSE <<m>>
  IN [result |-> RemoveMatches(text, ms, 0),
      re |-> IF re.g THEN [re EXCEPT !.lastIndex = 0] ELSE re]

\* The loop of RegExp.prototype[Symbol.split]: p is the start of the piece
\* being built, q the position tried; the separator must match at q exactly.
RECURSIVE SplitLoop(_, _, _, _)
SplitLoop(atoms, text, p, q) ==
  IF q >= Len(text) THEN <<Slice(text, p, Len(text))>>
  ELSE LET e == MatchAt(atoms, 1, text, q)
       IN IF e = -1 \/ e = p THEN SplitLoop(atoms, text, p, q + 1)
          ELSE <<Slice(text, p, q)>> \o SplitLoop(atoms, text, e, e)

\* String.prototype.split(sep) for a RegExp sep: the empty string gives []
\* when sep matches it and [""] otherwise.
StringSplit(text, sepSrc) ==
  LET atoms == Compile(sepSrc)
  IN IF text = <<>>
       THEN (IF MatchAt(atoms, 1, text, 0) # -1 THEN <<>> ELSE <<text>>)
       ELSE SplitLoop(atoms, text, 0, 0)

(***************************************************************************)
(* JavaScript values that cross the public API.                            *)
(***************************************************************************)

Undefined == [ty |-> "undefined"]
Str(s) == [ty |-> "string", s |-> s]
\* A reference to the RegExp object regexps[id].
RegExpRef(id) == [ty |-> "regexp", id |-> id]
\* A RegExp literal the caller writes as an argument: a new object.
RegExpLit(src, g) == [ty |-> "regexplit", src |-> src, g |-> g]
Arr(items) == [ty |-> "array", items |-> items]

\* A callback of the host program.  As a check it returns whether the text
\* is in accepts; as a respond it returns ("ok"), throws ("throw"), calls
\* send(reply) ("send") or calls feature(reply[1], reply[2], reply[3])
\* ("register"); as a string supplier it returns reply.
UserFn(accepts, beh, reply) ==
  [ty |-> "function", kind |-> "user", accepts |-> accepts, beh |-> beh,
   reply |-> reply]

\* x == null in JavaScript: undefined or null.
IsNullish(v) == v.ty = "undefined"

IsFn(v) == v.ty = "function"

(***************************************************************************)
(* The state of the module and of the process that hosts it.               *)
(***************************************************************************)
VARIABLES
  botId,      \* let botId: Undefined until config sets it
  features,   \* const features = []: the registry
  regexps,    \* the RegExp objects made by pattern and command, with lastIndex
  plugins,    \* the entry points use has added to module.exports
  listening,  \* whether listen has started the server
  alive,      \* FALSE once an uncaught exception has ended the process
  lateReg,    \* whether a feature was registered after the last sort
  call,       \* the last operation and its inputs
  thrown,     \* whether the last operation threw
  res,        \* the status the last request was answered with, 0 if none
  matched,    \* last dispatch: the registry positions whose check returned true
  responded,  \* last dispatch: the positions whose respond was called, in order
  invoked,    \* last dispatch: the host callbacks reached, with their argument
  sent        \* last operation: the requests send has made, in order

vars == <<botId, features, regexps, plugins, listening, alive, lateReg, call,
          thrown, res, matched, responded, invoked, sent>>

\* The own properties module.exports is given when the module loads.
BuiltIns ==
  {"config", "send", "feature", "pattern", "command", "random", "help",
   "listen", "use"}

(***************************************************************************)
(* The module's functions.  Each takes the module state m (botId,          *)
(* features, regexps and, for the operation in progress, sent, responded,  *)
(* invoked, thrown, the status res the request was answered with and the   *)
(* registry position cur of the feature being served) and gives the state  *)
(* after the call; a call that throws sets thrown and does nothing         *)
(* further.                                                                *)
(***************************************************************************)

\* The closures the builders make.
TestFn(id) == [ty |-> "function", kind |-> "test", re |-> id]
MatchFn(id, respond) ==
  [ty |-> "function", kind |-> "match", re |-> id, respond |-> respond]
CmdFn(id, sepSrc, respond) ==
  [ty |-> "function", kind |-> "cmd", re |-> id, sep |-> sepSrc,
   respond |-> respond]
RandFn(supply) == [ty |-> "function", kind |-> "rand", supply |-> supply]
HelpFn == [ty |-> "function", kind |-> "help"]

Throw(m) == [m EXCEPT !.thrown = TRUE]

\* module.exports.send(message, imageUrl, cb): one request to the bot API.
\* by is the registry position of the feature whose respond made the
\* request, 0 outside a dispatch.
send(m, message, imageUrl) ==
  IF message.ty # "string" THEN Throw(m)
  ELSE [m EXCEPT !.sent =
          Append(@, [bot_id |-> m.botId,
                     text |-> Trim(message.s),
                     picture_url |-> IF imageUrl.ty = "string" THEN imageUrl
                                     ELSE Undefined,
                     by |-> m.cur])]

\* feature with features.unshift in the place of features.push.
featureUnshift(m, desc, check, respond) ==
  LET shift == IsNullish(respond)
  IN [m EXCEPT !.features =
        <<[desc |-> IF shift THEN Str(<<>>) ELSE desc,
           check |-> IF shift THEN desc ELSE check,
           respond |-> IF shift THEN check ELSE respond]>> \o @]

\* module.exports.feature(desc, check, respond).
feature(m, desc, check, respond) ==
  LET shift == IsNullish(respond)
  IN [m EXCEPT !.features =
        Append(@, [desc |-> IF shift THEN Str(<<>>) ELSE desc,
                   check |-> IF shift THEN desc ELSE check,
                   respond |-> IF shift THEN check ELSE respond])]

\* new RegExp(src, flags) as a new object: the state and the object's id.
NewRegExp(m, src, g) ==
  [m |-> [m EXCEPT !.regexps = Append(@, RegExp(src, g))],
   id |-> Len(m.regexps) + 1]

\* module.exports.pattern(desc, pattern, respond).  A RegExp literal among
\* the arguments is an object the caller made for this call.
pattern(m, desc, pat, respond) ==
  LET shift == IsNullish(respond)
      d == IF shift THEN Str(<<>>) ELSE desc
      p == IF shift THEN desc ELSE pat
      r == IF shift THEN pat ELSE respond
      n == CASE p.ty = "string" -> NewRegExp(m, quote(p.s), TRUE)
             [] p.ty = "regexplit" -> NewRegExp(m, p.src, p.g)
             [] OTHER -> [m |-> m, id |-> p.id]
  IN feature(n.m, d, TestFn(n.id), MatchFn(n.id, r))

\* The source of new RegExp(typeof sep === 'string' ? quote(sep) : sep, 'g');
\* new RegExp(undefined, 'g') has the empty pattern.
SepSource(m, sep) ==
  CASE sep.ty = "string" -> quote(sep.s)
    [] sep.ty = "regexplit" -> sep.src
    [] sep.ty = "regexp" -> m.regexps[sep.id].src
    [] OTHER -> <<>>

\* /\s+/
WhiteSpaceSep == RegExpLit(<<"\\", "s", "+">>, FALSE)

\* module.exports.command(name, desc, sep, respond).
command(m, name, desc, sep, respond) ==
  LET two == IsNullish(respond) /\ IsNullish(sep)
      three == IsNullish(respond) /\ ~IsNullish(sep)
      r == IF two THEN desc ELSE IF three THEN sep ELSE respond
      s == IF three THEN WhiteSpaceSep ELSE sep
  IN IF ~two /\ desc.ty # "string" THEN Throw(m)  \* desc.trim() of a non-string
     ELSE LET d == IF two THEN <<>> ELSE <<" ", "-", " ">> \o Trim(desc.s)
              n == NewRegExp(m, <<"^", "/">> \o quote(name.s) \o WsOrEndSrc, TRUE)
          IN pattern(n.m, Str(<<"/">> \o name.s \o d), RegExpRef(n.id),
                     CmdFn(n.id, SepSource(m, s), r))

\* module.exports.random(name, desc, supply).
random(m, name, desc, supply) ==
  LET shift == IsNullish(supply)
  IN command(m, name, IF shift THEN Undefined ELSE desc,
             RandFn(IF shift THEN desc ELSE supply), Undefined)

\* features.map(feature => feature.desc).filter(desc => desc !== '')
RECURSIVE VisibleDescs(_)
VisibleDescs(fs) ==
  IF fs = <<>> THEN <<>>
  ELSE (IF Head(fs).desc = Str(<<>>) THEN <<>> ELSE <<Head(fs).desc.s>>)
         \o VisibleDescs(Tail(fs))

\* VisibleDescs that also leaves out every description that begins with
\* /help: a listing without the line of the help command.
RECURSIVE VisibleDescsButHelp(_)
VisibleDescsButHelp(fs) ==
  IF fs = <<>> THEN <<>>
  ELSE (IF \/ Head(fs).desc = Str(<<>>)
           \/ /\ Len(Head(fs).desc.s) >= 5
              /\ SubSeq(Head(fs).desc.s, 1, 5) = <<"/", "h", "e", "l", "p">>
          THEN <<>>
          ELSE <<Head(fs).desc.s>>)
         \o VisibleDescsButHelp(Tail(fs))

HelpTextButHelp(fs) == Join(VisibleDescsButHelp(fs), <<"\n">>)

\* features.map(feature => feature.desc).filter(desc => desc !== '').join('\n')
HelpText(fs) == Join(VisibleDescs(fs), <<"\n">>)

\* 'Displays help information about the bot.'
HelpDesc ==
  <<"D", "i", "s", "p", "l", "a", "y", "s", " ", "h", "e", "l", "p", " ",
    "i", "n", "f", "o", "r", "m", "a", "t", "i", "o", "n", " ",
    "a", "b", "o", "u", "t", " ", "t", "h", "e", " ", "b", "o", "t", ".">>

\* help with the listing made when help is called, not when /help arrives.
helpEager(m) ==
  command(m, Str(<<"h", "e", "l", "p">>), Str(HelpDesc),
          UserFn({}, "send", HelpText(m.features)), Undefined)

\* module.exports.help().
help(m) ==
  command(m, Str(<<"h", "e", "l", "p">>), Str(HelpDesc), HelpFn, Undefined)

(***************************************************************************)
(* The request handler's dispatch.                                         *)
(***************************************************************************)

\* The second argument a responder is called with.
NoArg == [kind |-> "none", isNull |-> FALSE, items |-> <<>>]
MatchesArg(r) == [kind |-> "matches", isNull |-> r.isNull, items |-> r.items]
ArgsArg(a) == [kind |-> "args", isNull |-> FALSE, items |-> a]

\* Array.isArray(supply) ? supply[Math.floor(Math.random() * supply.length)]
\*                        : supply()
\* with draw the index Math.floor(Math.random() * supply.length).
Supplied(supply, draw) ==
  IF supply.ty = "array"
    THEN (IF draw < Len(supply.items) THEN Str(supply.items[draw + 1])
          ELSE Undefined)
    ELSE Str(supply.reply)

\* fn(message, arg) for the responder of the feature at registry position
\* idx: a host callback, or one of the closures of pattern, command, random
\* and help.  Calling what is not a function throws a TypeError.
\* draw[idx] is the random index drawn for the feature at position idx.
RECURSIVE Call(_, _, _, _, _, _)
Call(m, fn, message, arg, idx, draw) ==
  IF ~IsFn(fn) THEN Throw(m)
  ELSE CASE fn.kind = "user" ->
              LET m1 == [m EXCEPT !.invoked = Append(@, [idx |-> idx, arg |-> arg])]
              IN CASE fn.beh = "throw" -> Throw(m1)
                   [] fn.beh = "send" -> send(m1, Str(fn.reply), Undefined)
                   [] fn.beh = "register" ->
                        feature(m1, fn.reply[1], fn.reply[2], fn.reply[3])
                   [] OTHER -> m1
         [] fn.kind = "match" ->
              \* message => respond(message, message['text'].match(pattern))
              LET r == StringMatch(message.text, m.regexps[fn.re])
              IN Call([m EXCEPT !.regexps[fn.re] = r.re], fn.respond, message,
                      MatchesArg(r), idx, draw)
         [] fn.kind = "cmd" ->
              \* message => respond(message,
              \*   message['text'].replace(regex, '').trim().split(sep))
              LET r == StringReplaceEmpty(message.text, m.regexps[fn.re])
              IN Call([m EXCEPT !.regexps[fn.re] = r.re], fn.respond, message,
                      ArgsArg(StringSplit(Trim(r.result), fn.sep)), idx, draw)
         [] fn.kind = "rand" ->
              IF fn.supply.ty \in {"array", "function"}
                THEN send(m, Supplied(fn.supply, draw[idx]), Undefined)
                ELSE Throw(m)
         [] fn.kind = "help" ->
              send(m, Str(HelpText(m.features)), Undefined)
         [] OTHER -> Throw(m)

\* feature.check && feature.check(message): the result and the state after.
Check(m, f, message) ==
  IF ~IsFn(f.check) THEN [result |-> FALSE, m |-> m]
  ELSE IF f.check.kind = "test"
    THEN LET t == RegExpTest(m.regexps[f.check.re], message.text)
         IN [result |-> t.result, m |-> [m EXCEPT !.regexps[f.check.re] = t.re]]
    ELSE [result |-> message.text \in f.check.accepts, m |-> m]

\* features.filter(...): every check is called, in registry order; the
\* result is the positions that passed.
RECURSIVE Filter(_, _, _)
Filter(m, message, i) ==
  IF i > Len(m.features) THEN [m |-> m, hits |-> <<>>]
  ELSE LET c == Check(m, m.features[i], message)
           rest == Filter(c.m, message, i + 1)
       IN [m |-> rest.m,
           hits |-> (IF c.result THEN <<i>> ELSE <<>>) \o rest.hits]

\* .forEach(feature => feature.respond(message)) over the filtered array fs;
\* an exception ends the loop.
RECURSIVE ForEach(_, _, _, _, _)
ForEach(m, fs, hits, message, draw) ==
  IF hits = <<>> \/ m.thrown THEN m
  ELSE ForEach(Call([m EXCEPT !.responded = Append(@, Head(hits)),
                               !.cur = Head(hits)],
                    fs[Head(hits)].respond, message, NoArg, Head(hits), draw),
               fs, Tail(hits), message, draw)

\* Dispatch without the test of sender_type.
DispatchAnySender(m, message, draw) ==
  LET f == Filter(m, message, 1)
  IN [m |-> ForEach(f.m, m.features, f.hits, message, draw), hits |-> f.hits]

\* Dispatch as one loop over the registry itself, which calls the check of
\* a feature and then, if it passed, its respond before the next check.
RECURSIVE EachLive(_, _, _, _)
EachLive(m, message, i, draw) ==
  IF i > Len(m.features) \/ m.thrown THEN [m |-> m, hits |-> <<>>]
  ELSE LET c == Check(m, m.features[i], message)
           m1 == IF c.result
                   THEN Call([c.m EXCEPT !.responded = Append(@, i), !.cur = i],
                             c.m.features[i].respond, message, NoArg, i, draw)
                   ELSE c.m
           rest == EachLive(m1, message, i + 1, draw)
       IN [m |-> rest.m,
           hits |-> (IF c.result THEN <<i>> ELSE <<>>) \o rest.hits]

DispatchLive(m, message, draw) ==
  IF message.sender_type = "user"
    THEN EachLive(m, message, 1, draw)
    ELSE [m |-> m, hits |-> <<>>]

\* The body of the request handler after the message is parsed.
Dispatch(m, message, draw) ==
  IF message.sender_type = "user"
    THEN LET f == Filter(m, message, 1)
         IN [m |-> ForEach(f.m, m.features, f.hits, message, draw),
             hits |-> f.hits]
    ELSE [m |-> m, hits |-> <<>>]

(***************************************************************************)
(* listen and use.                                                         *)
(***************************************************************************)

\* CompareDesc with the two results exchanged: a descending sort.
CompareDescDescending(a, b) ==
  IF StrLess(a.desc.s, b.desc.s) THEN 1
  ELSE IF StrLess(b.desc.s, a.desc.s) THEN -1
  ELSE 0

\* (a, b) => a.desc < b.desc ? -1 : a.desc > b.desc ? 1 : 0
CompareDesc(a, b) ==
  IF StrLess(a.desc.s, b.desc.s) THEN -1
  ELSE IF StrLess(b.desc.s, a.desc.s) THEN 1
  ELSE 0

\* x put into the sorted array fs before the elements that compare equal to
\* it: a sort that is not stable.
RECURSIVE InsertSortedBeforeEqual(_, _)
InsertSortedBeforeEqual(fs, x) ==
  IF fs = <<>> THEN <<x>>
  ELSE IF CompareDesc(Head(fs), x) < 0
    THEN <<Head(fs)>> \o InsertSortedBeforeEqual(Tail(fs), x)
    ELSE <<x>> \o fs

\* x put into the sorted array fs after every element that does not compare
\* greater than it.
RECURSIVE InsertSorted(_, _)
InsertSorted(fs, x) ==
  IF fs = <<>> THEN <<x>>
  ELSE IF CompareDesc(Head(fs), x) <= 0
    THEN <<Head(fs)>> \o InsertSorted(Tail(fs), x)
    ELSE <<x>> \o fs

\* features.sort(comparator): Array.prototype.sort, which ECMAScript 2019
\* requires to be stable, and which V8 before that (Node.js 10 and older)
\* ran as this insertion sort on arrays of at most ten elements.
RECURSIVE SortFeatures(_)
SortFeatures(fs) ==
  IF fs = <<>> THEN <<>>
  ELSE InsertSorted(SortFeatures(SubSeq(fs, 1, Len(fs) - 1)), fs[Len(fs)])

\* module.exports.hasOwnProperty(name)
HasOwnProperty(pl, name) == name \in BuiltIns \/ name \in DOMAIN pl

\* plugins.forEach(plugin => ...) of use: a taken name throws, another name
\* is installed; the exception ends the loop.
RECURSIVE UseLoop(_, _)
UseLoop(pl, ps) ==
  IF ps = <<>> THEN [plugins |-> pl, thrown |-> FALSE]
  ELSE IF HasOwnProperty(pl, Head(ps).name)
    THEN [plugins |-> pl, thrown |-> TRUE]
    ELSE UseLoop((Head(ps).name :> Head(ps).fn) @@ pl, Tail(ps))

(***************************************************************************)
(* The operations, as actions.                                             *)
(***************************************************************************)

\* The module state at the start of an operation.
M0 ==
  [botId |-> botId, features |-> features, regexps |-> regexps,
   sent |-> <<>>, responded |-> <<>>, invoked |-> <<>>, thrown |-> FALSE,
   res |-> 0, cur |-> 0]

\* The state after an operation that ended in module state m.  An exception
\* nobody catches ends the process; a host that catches it goes on.
Commit(m, c, status, hits) ==
  /\ botId' = m.botId
  /\ features' = m.features
  /\ regexps' = m.regexps
  /\ sent' = m.sent
  /\ responded' = m.responded
  /\ invoked' = m.invoked
  /\ thrown' = m.thrown
  /\ call' = c
  /\ res' = status
  /\ matched' = hits
  /\ lateReg' = (lateReg \/ (listening /\ m.features # features))
  /\ alive' \in (IF m.thrown THEN BOOLEAN ELSE {TRUE})

ConfigCall(id) ==
  /\ alive
  /\ Commit([M0 EXCEPT !.botId = Str(id)], [op |-> "config", args |-> <<Str(id)>>],
            0, <<>>)
  /\ UNCHANGED <<plugins, listening>>

FeatureCall(desc, check, respond) ==
  /\ alive
  /\ Commit(feature(M0, desc, check, respond),
            [op |-> "feature", args |-> <<desc, check, respond>>], 0, <<>>)
  /\ UNCHANGED <<plugins, listening>>

PatternCall(desc, pat, respond) ==
  /\ alive
  /\ Commit(pattern(M0, desc, pat, respond),
            [op |-> "pattern", args |-> <<desc, pat, respond>>], 0, <<>>)
  /\ UNCHANGED <<plugins, listening>>

CommandCall(name, desc, sep, respond) ==
  /\ alive
  /\ Commit(command(M0, name, desc, sep, respond),
            [op |-> "command", args |-> <<name, desc, sep, respond>>], 0, <<>>)
  /\ UNCHANGED <<plugins, listening>>

RandomCall(name, desc, supply) ==
  /\ alive
  /\ Commit(random(M0, name, desc, supply),
            [op |-> "random", args |-> <<name, desc, supply>>], 0, <<>>)
  /\ UNCHANGED <<plugins, listening>>

HelpCall ==
  /\ alive
  /\ Commit(help(M0), [op |-> "help", args |-> <<>>], 0, <<>>)
  /\ UNCHANGED <<plugins, listening>>

\* module.exports.listen(args): the sort, then the server starts.  The host
\* starts the server once.
Listen ==
  /\ alive
  /\ ~listening
  /\ listening' = TRUE
  /\ features' = SortFeatures(features)
  /\ lateReg' = FALSE
  /\ call' = [op |-> "listen", args |-> <<>>]
  /\ thrown' = FALSE
  /\ res' = 0
  /\ matched' = <<>>
  /\ responded' = <<>>
  /\ invoked' = <<>>
  /\ sent' = <<>>
  /\ UNCHANGED <<botId, regexps, plugins, alive>>

\* module.exports.use(...ps)
UseCall(ps) ==
  /\ alive
  /\ LET u == UseLoop(plugins, ps)
     IN /\ plugins' = u.plugins
        /\ Commit([M0 EXCEPT !.thrown = u.thrown], [op |-> "use", args |-> ps],
                  0, <<>>)
  /\ UNCHANGED listening

\* module.exports[name](...args) for an installed plugin:
\* plugin.fn.apply(module.exports, args).  The plugin function of the model
\* registers a feature from its arguments (this.feature(...args)) or does
\* nothing.
PluginCall(name, args) ==
  /\ alive
  /\ name \in DOMAIN plugins
  /\ IF plugins[name].beh = "feature"
       THEN Commit(feature(M0, args[1], args[2], args[3]),
                   [op |-> name, args |-> args], 0, <<>>)
       ELSE Commit(M0, [op |-> name, args |-> args], 0, <<>>)
  /\ UNCHANGED <<plugins, listening>>

\* The length of the array a random feature draws from, 1 for any other
\* feature.
SupplyLen(f) ==
  IF /\ IsFn(f.respond) /\ f.respond.kind = "match"
     /\ IsFn(f.respond.respond) /\ f.respond.respond.kind = "cmd"
     /\ IsFn(f.respond.respond.respond)
     /\ f.respond.respond.respond.kind = "rand"
     /\ f.respond.respond.respond.supply.ty = "array"
     /\ f.respond.respond.respond.supply.items # <<>>
    THEN Len(f.respond.respond.respond.supply.items)
    ELSE 1

\* The outcomes of Math.floor(Math.random() * supply.length), one for each
\* registry position.
RECURSIVE MaxSupplyLen(_)
MaxSupplyLen(fs) ==
  IF fs = <<>> THEN 1
  ELSE LET r == MaxSupplyLen(Tail(fs))
       IN IF SupplyLen(Head(fs)) > r THEN SupplyLen(Head(fs)) ELSE r

Draws ==
  {d \in [1..Len(features) -> 0..(MaxSupplyLen(features) - 1)] :
     \A i \in 1..Len(features) : d[i] < SupplyLen(features[i])}

\* The body of a request: the JSON text of message, or text that is not
\* JSON.
JsonText(message) == [json |-> TRUE, message |-> message]
NotJson == [json |-> FALSE, message |-> [sender_type |-> "", text |-> <<>>]]

\* The handler with the answer to a POST written last, after the dispatch
\* returned.
HandlerAckLast(m, method, body, draw) ==
  IF method = "POST"
    THEN IF body.json
           THEN LET d == Dispatch(m, body.message, draw)
                IN [m |-> IF d.m.thrown THEN d.m ELSE [d.m EXCEPT !.res = 200],
                    hits |-> d.hits]
           ELSE [m |-> Throw(m), hits |-> <<>>]
    ELSE [m |-> [m EXCEPT !.res = 400], hits |-> <<>>]

\* The handler of http.createServer, run when the body has arrived.  For a
\* POST it writes 200 'OK' first; JSON.parse then throws a SyntaxError on
\* a body that is not JSON.  Any other method is answered with 400.
Handler(m, method, body, draw) ==
  IF method = "POST"
    THEN IF body.json
           THEN Dispatch([m EXCEPT !.res = 200], body.message, draw)
           ELSE [m |-> Throw([m EXCEPT !.res = 200]), hits |-> <<>>]
    ELSE [m |-> [m EXCEPT !.res = 400], hits |-> <<>>]

\* One request to the server.  call keeps the method, the message the body
\* stands for and whether the body is JSON.
Request(method, body) ==
  /\ alive
  /\ listening
  /\ \E draw \in Draws :
       \E h \in {Handler(M0, method, body, draw)} :
         Commit(h.m, [op |-> "request",
                      args |-> <<method, body.message, body.json>>],
                h.m.res, h.hits)
  /\ UNCHANGED <<plugins, listening>>

(***************************************************************************)
(* The calls and messages the host program and the chat make in the model. *)
(***************************************************************************)

TBan == <<"/", "b", "a", "n">>
TBanSpace == <<"/", "b", "a", "n", " ">>
TBanArgs == <<"/", "b", "a", "n", " ", "e", "x", "t", "r", "a", " ", "t", "e", "x", "t">>
TBanana == <<"/", "b", "a", "n", "a", "n", "a">>
TMidBan == <<"x", " ", "/", "b", "a", "n">>
TBanComma == <<"/", "b", "a", "n", " ", "x", ",", "y">>
THelp == <<"/", "h", "e", "l", "p">>
THelpArgs == <<"/", "h", "e", "l", "p", " ", "m", "e">>
TDot == <<"a", ".", "b">>
TNoDot == <<"a", "x", "b">>
TDotTwice == <<"a", ".", "b", " ", "a", ".", "b">>
TPlus == <<"a", "+">>
TNoPlus == <<"a", "a">>

Texts ==
  {TBan, TBanSpace, TBanArgs, TBanana, TMidBan, TBanComma, THelp, THelpArgs,
   TDot, TNoDot, TDotTwice, TPlus, TNoPlus}

Msg(sender, text) == [sender_type |-> sender, text |-> text]

\* Host callbacks: checks that accept every text, no text or two of the
\* texts, and responders that return, throw or send a reply.
CheckAll == UserFn(Texts, "ok", <<>>)
CheckNone == UserFn({}, "ok", <<>>)
CheckSome == UserFn({TBan, TBanana}, "ok", <<>>)
RespondOk == UserFn({}, "ok", <<>>)
RespondThrow == UserFn({}, "throw", <<>>)
RespondSend == UserFn({}, "send", <<" ", "h", "i", " ">>)

NameBan == Str(<<"b", "a", "n">>)
DescA == Str(<<"a">>)
DescB == Str(<<"b">>)
DescEmpty == Str(<<>>)

Init ==
  /\ botId = Undefined
  /\ features = <<>>
  /\ regexps = <<>>
  /\ plugins = << >>
  /\ listening = FALSE
  /\ alive = TRUE
  /\ lateReg = FALSE
  /\ call = [op |-> "load", args |-> <<>>]
  /\ thrown = FALSE
  /\ res = 0
  /\ matched = <<>>
  /\ responded = <<>>
  /\ invoked = <<>>
  /\ sent = <<>>

(***************************************************************************)
(* Spec: the registry and the dispatcher.  The host registers features,   *)
(* a pattern and a command, before and after listen, and the chat posts   *)
(* messages.                                                               *)
(***************************************************************************)

\* feature(check, respond) and feature(desc, check, respond)
FeatureArgs ==
  {<<CheckAll, RespondOk, Undefined>>,
   <<DescA, CheckAll, RespondThrow>>,
   <<DescB, CheckAll, RespondSend>>,
   <<DescB, CheckSome, RespondOk>>}

\* command(name, desc, respond)
CommandArgs == {<<NameBan, DescB, RespondOk, Undefined>>}

\* pattern(desc, pattern, respond) with a literal string
PatternArgs == {<<DescA, Str(TDot), RespondOk>>}

Messages ==
  {Msg(s, t) : s \in {"user", "bot"}, t \in {TBan, TBanArgs, TBanana, TMidBan, TDot}}

\* The calls in args while the registry is shorter than max, none after.
UpTo(max, args) == IF Len(features) < max THEN args ELSE {}

Next ==
  \/ \E a \in UpTo(MaxFeatures, FeatureArgs) : FeatureCall(a[1], a[2], a[3])
  \/ \E a \in UpTo(MaxFeatures, CommandArgs) : CommandCall(a[1], a[2], a[3], a[4])
  \/ \E a \in UpTo(MaxFeatures, PatternArgs) : PatternCall(a[1], a[2], a[3])
  \/ Listen
  \/ \E message \in Messages : Request("POST", JsonText(message))
  \/ Request("POST", NotJson)
  \/ Request("GET", JsonText(Msg("user", TBan)))

Spec == Init /\ [][Next]_vars

(***************************************************************************)
(* SpecCommand: the host registers commands in each call form of command, *)
(* starts the server, and the chat posts messages.                         *)
(***************************************************************************)

\* command(name, respond), command(name, desc, respond) and
\* command(name, desc, sep, respond) with a string and with a RegExp
CommandForms ==
  {<<NameBan, RespondOk, Undefined, Undefined>>,
   <<NameBan, Str(<<" ", "b", " ">>), RespondOk, Undefined>>,
   <<NameBan, DescA, Str(<<",">>), RespondOk>>,
   <<NameBan, DescA, RegExpLit(<<",">>, FALSE), RespondOk>>}

CommandMessages ==
  {Msg("user", t) : t \in {TBan, TBanSpace, TBanArgs, TBanana, TMidBan, TBanComma}}
    \cup {Msg("bot", TBanArgs)}

NextCommand ==
  \/ \E a \in UpTo(MaxFeatures, CommandForms) : CommandCall(a[1], a[2], a[3], a[4])
  \/ Listen
  \/ \E message \in CommandMessages : Request("POST", JsonText(message))

SpecCommand == Init /\ [][NextCommand]_vars

(***************************************************************************)
(* SpecRandom: the host registers random commands in each call form.      *)
(***************************************************************************)

SupplyXY == Arr(<< <<"x">>, <<"y">> >>)
SupplierZ == UserFn({}, "ok", <<"z">>)

\* random(name, supply) and random(name, desc, supply), with an array and
\* with a supplier
RandomForms ==
  {<<NameBan, SupplyXY, Undefined>>,
   <<NameBan, SupplierZ, Undefined>>,
   <<NameBan, DescA, SupplyXY>>,
   <<NameBan, DescB, SupplierZ>>}

RandomMessages ==
  {Msg("user", t) : t \in {TBan, TBanArgs, TBanana}} \cup {Msg("bot", TBan)}

NextRandom ==
  \/ \E a \in UpTo(MaxFeatures, RandomForms) : RandomCall(a[1], a[2], a[3])
  \/ \E a \in UpTo(MaxFeatures, {<<CheckAll, RespondThrow, Undefined>>}) :
       FeatureCall(a[1], a[2], a[3])
  \/ Listen
  \/ \E message \in RandomMessages : Request("POST", JsonText(message))

SpecRandom == Init /\ [][NextRandom]_vars

(***************************************************************************)
(* SpecHelp: the host registers described and hidden features and help.   *)
(***************************************************************************)

\* A description that begins with white space.
DescIndented == Str(<<" ", "a">>)

HelpFeatureArgs ==
  {<<DescB, CheckNone, RespondOk>>,
   <<DescIndented, CheckNone, RespondOk>>,
   <<DescEmpty, CheckNone, RespondOk>>,
   <<DescA, CheckNone, RespondOk>>,
   <<CheckAll, RespondThrow, Undefined>>}

HelpMessages == {Msg("user", THelp), Msg("user", THelpArgs), Msg("bot", THelp)}

NextHelp ==
  \/ \E a \in UpTo(MaxHelpFeatures, HelpFeatureArgs) : FeatureCall(a[1], a[2], a[3])
  \/ HelpCall /\ Len(features) < MaxHelpFeatures
  \/ Listen
  \/ \E message \in HelpMessages : Request("POST", JsonText(message))

SpecHelp == Init /\ [][NextHelp]_vars

(***************************************************************************)
(* SpecUse: the host configures the bot, installs plugins and calls them. *)
(***************************************************************************)

\* Plugin functions: one calls this.feature with its arguments, one does
\* nothing.
PluginFeature == [ty |-> "function", kind |-> "plugin", beh |-> "feature"]
PluginNoop == [ty |-> "function", kind |-> "plugin", beh |-> "noop"]

PluginDescriptors ==
  {[name |-> "greet", fn |-> PluginFeature],
   [name |-> "mute", fn |-> PluginNoop],
   [name |-> "send", fn |-> PluginNoop]}

\* The argument lists of use: one plugin up to MaxPlugins plugins.
RECURSIVE PluginLists(_)
PluginLists(n) ==
  IF n = 0 THEN {<<>>}
  ELSE PluginLists(n - 1)
         \cup {Append(ps, d) : ps \in PluginLists(n - 1), d \in PluginDescriptors}

PluginCallArgs == {<<DescA, CheckAll, RespondOk>>, <<CheckSome, RespondSend, Undefined>>}

NextUse ==
  \/ ConfigCall(<<"B", "1">>)
  \/ \E ps \in PluginLists(MaxPlugins) \ {<<>>} : UseCall(ps)
  \/ \E name \in {"greet", "mute"}, a \in UpTo(MaxFeatures, PluginCallArgs) :
       PluginCall(name, a)

SpecUse == Init /\ [][NextUse]_vars

(***************************************************************************)
(* SpecPattern: the host registers patterns from literal strings and from *)
(* regular expressions with and without the global flag, some of them     *)
(* sharing one RegExp object, and a feature whose responder throws.        *)
(***************************************************************************)

\* The source of the regular expression literals /a.b/g and /a.b/.
DotSrc == <<"a", ".", "b">>

\* pattern(pattern, respond) and pattern(desc, pattern, respond)
PatternForms ==
  {<<Str(TDot), RespondOk, Undefined>>,
   <<DescA, Str(TPlus), RespondOk>>,
   <<DescA, RegExpLit(DotSrc, TRUE), RespondOk>>,
   <<DescB, RegExpLit(DotSrc, FALSE), RespondOk>>}

\* The RegExp objects the host made itself and can pass to pattern again.
HostRegExps == {id \in 1..Len(regexps) : regexps[id].src = DotSrc}

\* pattern(desc, re, respond) with a RegExp object passed before
SharedForms == {<<DescB, RegExpRef(id), RespondOk>> : id \in HostRegExps}

PatternThrower == {<<CheckAll, RespondThrow, Undefined>>}

PatternMessages ==
  {Msg("user", t) : t \in {TDot, TNoDot, TDotTwice, TPlus, TNoPlus}}
    \cup {Msg("bot", TDot)}

NextPattern ==
  \/ \E a \in UpTo(MaxFeatures, PatternForms) : PatternCall(a[1], a[2], a[3])
  \/ \E a \in UpTo(MaxFeatures, SharedForms) : PatternCall(a[1], a[2], a[3])
  \/ \E a \in UpTo(MaxFeatures, PatternThrower) : FeatureCall(a[1], a[2], a[3])
  \/ Listen
  \/ \E message \in PatternMessages : Request("POST", JsonText(message))

SpecPattern == Init /\ [][NextPattern]_vars

(***************************************************************************)
(* SpecSort: the host registers features whose descriptions differ in     *)
(* case or are equal, in every order, and listen sorts them.               *)
(***************************************************************************)

DescD == Str(<<"D">>)

SortFeatureArgs ==
  {<<DescB, CheckAll, RespondOk>>,
   <<DescD, CheckAll, RespondOk>>,
   <<DescA, CheckAll, RespondOk>>,
   <<DescA, CheckSome, RespondSend>>,
   <<CheckSome, RespondOk, Undefined>>}

SortMessages == {Msg("user", TBan), Msg("user", TDot)}

NextSort ==
  \/ \E a \in UpTo(MaxFeatures, SortFeatureArgs) : FeatureCall(a[1], a[2], a[3])
  \/ Listen
  \/ \E message \in SortMessages : Request("POST", JsonText(message))

SpecSort == Init /\ [][NextSort]_vars

(***************************************************************************)
(* SpecLate: responders that register a feature while a message is being  *)
(* dispatched, and a host that registers before and after listen.         *)
(***************************************************************************)

MaxLateFeatures == 4

\* A responder that calls feature('a', () => true, () => {}).
RespondRegister == UserFn({}, "register", <<DescA, CheckAll, RespondOk>>)

LateFeatureArgs ==
  {<<DescB, CheckAll, RespondRegister>>,
   <<DescA, CheckSome, RespondOk>>,
   <<DescA, CheckAll, RespondThrow>>}

LateMessages == {Msg("user", TBan), Msg("user", TDot), Msg("bot", TBan)}

NextLate ==
  \/ \E a \in UpTo(MaxFeatures, LateFeatureArgs) : FeatureCall(a[1], a[2], a[3])
  \/ Listen
  \/ \E message \in UpTo(MaxLateFeatures, LateMessages) :
       Request("POST", JsonText(message))

SpecLate == Init /\ [][NextLate]_vars

(***************************************************************************)
(* Properties of the dispatcher.                                           *)
(***************************************************************************)

Range(seq) == {seq[j] : j \in 1..Len(seq)}

Count(seq, x) == Cardinality({j \in 1..Len(seq) : seq[j] = x})

\* The last operation was a POST whose body is the JSON text of a message,
\* and one carrying a user message.
IsPost == call.op = "request" /\ call.args[1] = "POST" /\ call.args[3]
IsUserPost == IsPost /\ call.args[2].sender_type = "user"

\* A feature made by command: pattern's responder around command's.
IsCommandFeature(f) ==
  /\ IsFn(f.respond) /\ f.respond.kind = "match"
  /\ IsFn(f.respond.respond) /\ f.respond.respond.kind = "cmd"

\* C1: when the respond of a matched feature throws during the dispatch of a
\* user message, the respond of every matched feature is still called for
\* that message, the ones after the failing one included.
C1_ResponderFailureIsolated ==
  (IsUserPost /\ thrown) => \A i \in Range(matched) : i \in Range(responded)

\* C2: the dispatch of a user message calls respond exactly once for each
\* feature whose check returned true and never for another feature.
C2_MatchedRespondOnce ==
  IsUserPost =>
    \A i \in 1..Len(features) :
      Count(responded, i) = IF i \in Range(matched) THEN 1 ELSE 0

\* C3: the dispatch of a message whose sender_type is not "user" calls no
\* check and no responder and sends nothing.
C3_NonUserIgnored ==
  (IsPost /\ call.args[2].sender_type # "user") =>
    /\ matched = <<>>
    /\ responded = <<>>
    /\ invoked = <<>>
    /\ sent = <<>>
    /\ ~thrown

\* A message of a bot was posted while a feature that accepts its text was
\* registered.
C3_Witness ==
  /\ IsPost
  /\ call.args[2].sender_type = "bot"
  /\ \E i \in 1..Len(features) : Check(M0, features[i], call.args[2]).result

BeginsWithCommand(text, name) ==
  /\ Len(text) >= Len(name) + 1
  /\ SubSeq(text, 1, Len(name) + 1) = <<"/">> \o name
  /\ (Len(text) = Len(name) + 1 \/ IsWs(text[Len(name) + 2]))

ExplicitSepSrc == <<",">>

\* The arguments a host responder of a command feature was called with.
IsArgs(e) == e.arg.kind = "args"

\* C5: a command named ban registered without a separator, in the form
\* command(name, respond) as in the form command(name, desc, respond), calls
\* its respond with ["extra", "text"] for the text "/ban extra text".
C5_DefaultSeparator ==
  (IsUserPost /\ call.args[2].text = TBanArgs) =>
    \A e \in Range(invoked) :
      (IsArgs(e) /\ features[e.idx].respond.respond.sep # ExplicitSepSrc) =>
        e.arg.items = << <<"e", "x", "t", "r", "a">>, <<"t", "e", "x", "t">> >>

\* C6: when nothing but white space follows /ban in the text, the respond of
\* a command is called with the empty argument list.
C6_NoArguments ==
  (IsUserPost /\ call.args[2].text \in {TBan, TBanSpace}) =>
    \A e \in Range(invoked) : IsArgs(e) => e.arg.items = <<>>

(***************************************************************************)
(* Properties of use and random.                                           *)
(***************************************************************************)

\* C8: a call of use that throws for a taken name leaves the entry points
\* of module.exports as they were before the call.
C8_UseAllOrNothing ==
  [][(call'.op = "use" /\ thrown') => plugins' = plugins]_vars

\* C9: random(name, supply) returns without an exception and appends one
\* feature, whose description is /name.
C9_RandomWithoutDesc ==
  [][(call'.op = "random" /\ IsNullish(call'.args[3])) =>
       /\ ~thrown'
       /\ Len(features') = Len(features) + 1
       /\ features'[Len(features')].desc = Str(<<"/">> \o call'.args[1].s)]_vars

(***************************************************************************)
(* Properties of help.                                                     *)
(***************************************************************************)

Descs(fs) == [j \in 1..Len(fs) |-> fs[j].desc.s]

\* The description command gives the help command.
HelpLine == <<"/">> \o <<"h", "e", "l", "p">> \o <<" ", "-", " ">> \o HelpDesc

\* The case of C10: the registry holds help and three features described
\* "b", "" and "a", listen has sorted it, and a user posts /help, to which
\* help alone answers.
HelpListingCase ==
  /\ IsUserPost
  /\ call.args[2].text = THelp
  /\ ~lateReg
  /\ Len(features) = 4
  /\ \A d \in {<<"b">>, <<>>, <<"a">>, HelpLine} : Count(Descs(features), d) = 1
  /\ Len(matched) = 1
  /\ features[matched[1]].desc.s = HelpLine

\* C10 as stated: the one message sent has the text "a\nb".
C10_HelpListingAsStated ==
  HelpListingCase =>
    /\ Len(sent) = 1
    /\ sent[1].text = <<"a", "\n", "b">>

\* C10 as the code has it: the listing begins with the line of the help
\* command itself.
C10_HelpListing ==
  HelpListingCase =>
    /\ Len(sent) = 1
    /\ sent[1].text = HelpLine \o <<"\n", "a", "\n", "b">>

C10_Witness == HelpListingCase /\ Len(sent) = 1

(***************************************************************************)
(* The acknowledgement of a request.                                       *)
(***************************************************************************)

\* C20: every POST is answered 200 whether or not its body parses and
\* whether or not a responder throws, since the answer is written before
\* the body is parsed and the features run; any other method is answered
\* 400 and runs no check and no respond: nothing is matched, called, sent
\* or thrown and no RegExp, feature or bot id changes.
C20_AckBeforeDispatch ==
  [][call'.op = "request" =>
       IF call'.args[1] = "POST"
         THEN res' = 200
         ELSE /\ res' = 400
              /\ matched' = <<>> /\ responded' = <<>> /\ invoked' = <<>>
              /\ sent' = <<>> /\ ~thrown'
              /\ regexps' = regexps /\ features' = features
              /\ botId' = botId]_vars

\* A POST whose body is not JSON, and a POST a responder of which threw,
\* both answered 200.
C20_Witness ==
  /\ call.op = "request" /\ call.args[1] = "POST"
  /\ thrown /\ res = 200
  /\ ~call.args[3]

C20_WitnessResponder ==
  /\ IsUserPost /\ thrown /\ res = 200 /\ responded # <<>>

(***************************************************************************)
(* The registry after listen, and registration during a dispatch.         *)
(***************************************************************************)

C11_WitnessResponder ==
  /\ IsUserPost
  /\ \E k \in 1..Len(invoked) :
       features[invoked[k].idx].respond.beh = "register"

\* C19: within one dispatch every check is evaluated before any respond:
\* the features matched are the features of the registry as it was when
\* the dispatch began whose check accepts the message, and only these are
\* responded; a feature a responder registers during the dispatch is not
\* checked and not invoked for that message.
C19_ChecksBeforeResponds ==
  [][IsUserPost' =>
       /\ Range(matched') =
            {i \in 1..Len(features) :
               /\ IsFn(features[i].check)
               /\ call'.args[2].text \in features[i].check.accepts}
       /\ Range(responded') \subseteq Range(matched')
       /\ \A k \in 1..Len(invoked') : invoked'[k].idx \in Range(matched')]_vars

\* A dispatch in which a responder registered a feature whose check accepts
\* the message being dispatched.
C19_Witness ==
  /\ IsUserPost
  /\ \E k \in 1..Len(invoked) :
       features[invoked[k].idx].respond.beh = "register"
  /\ call.args[2].text \in features[Len(features)].check.accepts
  /\ Len(features) \notin Range(matched)

(***************************************************************************)
(* Registration.                                                           *)
(***************************************************************************)

Registrations == {"feature", "pattern", "command", "random", "help"}

\* C12: registration never deduplicates: every registration that reaches
\* feature appends exactly one record at the end of the registry, and when
\* the same check/respond pair is registered at two positions a user
\* message that check accepts has the respond invoked for both positions,
\* once each, in one dispatch.
C12_NoDeduplication ==
  [][/\ (call'.op \in Registrations /\ ~thrown') =>
          /\ Len(features') = Len(features) + 1
          /\ SubSeq(features', 1, Len(features)) = features
     /\ IsUserPost' =>
          \A i, j \in 1..Len(features) :
            (/\ i < j
             /\ features[i].check = features[j].check
             /\ features[i].respond = features[j].respond
             /\ i \in Range(matched')) =>
               /\ Count(responded', i) = 1
               /\ Count(responded', j) = 1]_vars

(***************************************************************************)
(* Properties of random.                                                   *)
(***************************************************************************)

\* A feature made by random from an array that is not empty, and the array.
IsRandomFeature(f) ==
  /\ IsCommandFeature(f)
  /\ IsFn(f.respond.respond.respond)
  /\ f.respond.respond.respond.kind = "rand"
  /\ f.respond.respond.respond.supply.ty = "array"
  /\ f.respond.respond.respond.supply.items # <<>>

Collection(f) == Range(f.respond.respond.respond.supply.items)

\* The requests send made for the feature at registry position i.
SentBy(i) == {k \in 1..Len(sent) : sent[k].by = i}

\* C13: for every user message that begins with the command of a feature
\* random made from a collection that is not empty (the commands of this
\* specification are named ban), with or without arguments after the name,
\* that feature sends exactly one message, and its text is a member of the
\* collection.
C13_RandomSendsOneMember ==
  IsUserPost =>
    \A i \in 1..Len(features) :
      (/\ IsRandomFeature(features[i])
       /\ BeginsWithCommand(call.args[2].text, NameBan.s)) =>
         /\ Cardinality(SentBy(i)) = 1
         /\ \A k \in SentBy(i) : sent[k].text \in Collection(features[i])

\* Every member of the collection is an outcome: a dispatch of /ban with
\* arguments in which one random feature sent x and another sent y.
C13_EveryMember ==
  /\ IsUserPost /\ call.args[2].text = TBanArgs
  /\ \E k, l \in 1..Len(sent) :
       /\ sent[k].text = <<"x">> /\ sent[l].text = <<"y">>
       /\ sent[k].by # sent[l].by

(***************************************************************************)
(* Properties of listen.                                                   *)
(***************************************************************************)

\* The place of the descriptions of SpecSort in the order of their code
\* units: the empty string, then upper case, then lower case.
DescRank(d) ==
  CASE d = <<>> -> 0
    [] d = <<"D">> -> 1
    [] d = <<"a">> -> 2
    [] d = <<"b">> -> 3

\* The one-to-one maps of 1..n onto itself.
Perms(n) == {p \in [1..n -> 1..n] : \A j, k \in 1..n : p[j] = p[k] => j = k}

\* C14: the registry listen leaves is the registry it found, rearranged:
\* ascending by description in the case-sensitive order of the strings,
\* with the features of equal description in the order they had before.
C14_ListenSorts ==
  [][call'.op = "listen" =>
       /\ Len(features') = Len(features)
       /\ \A j, k \in 1..Len(features') :
            j < k => DescRank(features'[j].desc.s) <= DescRank(features'[k].desc.s)
       /\ \E p \in Perms(Len(features)) :
            /\ \A k \in 1..Len(features) : features'[k] = features[p[k]]
            /\ \A j, k \in 1..Len(features) :
                 (j < k /\ features'[j].desc = features'[k].desc) => p[j] < p[k]]_vars

\* listen has sorted a registry of three features, two of them different
\* features of one description and one with an upper-case description.
C14_Witness ==
  /\ call.op = "listen"
  /\ Len(features) = 3
  /\ features[1].desc = DescD
  /\ features[2].desc = DescA /\ features[3].desc = DescA
  /\ features[2] # features[3]

(***************************************************************************)
(* Properties of pattern.                                                  *)
(***************************************************************************)

\* C18: every dispatch starts from the same state of the pattern and
\* command features: between two operations the lastIndex of every RegExp
\* object they hold is 0, also after a dispatch in which a responder threw
\* and when two pattern features share one RegExp object, so that a
\* dispatch depends on the registry and its message only.
C18_LastIndexZero ==
  \A id \in 1..Len(regexps) : regexps[id].lastIndex = 0

\* Whether sub is at place i of text, the places of sub in wild standing
\* for any character.
IsAt(sub, wild, text, i) ==
  /\ i + Len(sub) - 1 <= Len(text)
  /\ \A j \in 1..Len(sub) : j \in wild \/ text[i + j - 1] = sub[j]

\* The occurrences of sub in text from place i on, left to right and not
\* overlapping.
RECURSIVE Occurrences(_, _, _, _)
Occurrences(sub, wild, text, i) ==
  IF i > Len(text) THEN <<>>
  ELSE IF IsAt(sub, wild, text, i)
    THEN <<SubSeq(text, i, i + Len(sub) - 1)>>
           \o Occurrences(sub, wild, text, i + Len(sub))
    ELSE Occurrences(sub, wild, text, i + 1)

\* A feature made by pattern, and what its pattern stands for in
\* SpecPattern: the literal a.b, the literal a+, or a, any character, b.
IsPatternFeature(f) ==
  /\ IsFn(f.respond) /\ f.respond.kind = "match"
  /\ IsFn(f.respond.respond) /\ f.respond.respond.kind = "user"

IsLiteralFeature(f) ==
  IsPatternFeature(f) /\ regexps[f.check.re].src # DotSrc

PatternSub(f) ==
  IF regexps[f.check.re].src = DotSrc \/ regexps[f.check.re].src[3] = "."
    THEN TDot ELSE TPlus

PatternWild(f) == IF regexps[f.check.re].src = DotSrc THEN {2} ELSE {}

\* C15: the respond of a pattern feature, registered with a literal string
\* or with a regular expression with or without the global flag, is called
\* with the array of every occurrence of the pattern in the text, left to
\* right and not overlapping.
C15_EveryOccurrence ==
  IsUserPost =>
    \A k \in 1..Len(invoked) :
      IsPatternFeature(features[invoked[k].idx]) =>
        /\ ~invoked[k].arg.isNull
        /\ invoked[k].arg.items =
             Occurrences(PatternSub(features[invoked[k].idx]),
                         PatternWild(features[invoked[k].idx]),
                         call.args[2].text, 1)

\* C16: the check of a pattern feature registered with a literal string
\* returns true exactly when that string occurs in the text as it is
\* written: a.b matches a.b and not axb, a+ matches a+ and not aa.
C16_LiteralSubstring ==
  IsUserPost =>
    \A i \in 1..Len(features) :
      IsLiteralFeature(features[i]) =>
        (i \in Range(matched) <=>
           Occurrences(PatternSub(features[i]), {}, call.args[2].text, 1) # <<>>)

(***************************************************************************)
(* The time the help listing is made.                                      *)
(***************************************************************************)

\* The descriptions of fs that are not empty, in the order of fs, one to a
\* line.
RECURSIVE Listing(_)
Listing(fs) ==
  IF fs = <<>> THEN <<>>
  ELSE LET d == Head(fs).desc.s
           rest == Listing(Tail(fs))
       IN IF d = <<>> THEN rest
          ELSE IF rest = <<>> THEN d
          ELSE d \o <<"\n">> \o rest

\* The positions of the help commands that responded to the last message.
HelpResponded == {i \in Range(responded) : features[i].desc.s = HelpLine}

\* C17 as stated: the text a help command sends is the listing of the
\* registry as it is when /help is dispatched: the descriptions that are
\* not empty, the help command's own and those of features registered
\* after help() included, in registry order, joined by newlines.
C17_HelpAtDispatchAsStated ==
  IsUserPost =>
    \A i \in HelpResponded :
      /\ Cardinality(SentBy(i)) = 1
      /\ \A k \in SentBy(i) : sent[k].text = Listing(features)

\* C17, amended: the text is that listing with the white space at its two
\* ends removed, as send trims what it sends.
C17_HelpAtDispatch ==
  IsUserPost =>
    \A i \in HelpResponded :
      /\ Cardinality(SentBy(i)) = 1
      /\ \A k \in SentBy(i) : sent[k].text = Trim(Listing(features))

\* A help command answered with a listing that holds a feature registered
\* after help() and after listen, and begins with an indented description.
C17_Witness ==
  /\ IsUserPost /\ lateReg
  /\ \E i \in HelpResponded :
       /\ i < Len(features)
       /\ features[Len(features)].desc = DescB
       /\ SentBy(i) # {}
  /\ features[1].desc = DescIndented

====
